---- MODULE Spec2Model ----
(***************************************************************************)
(* Model of src/scrambler.py: the two key-driven tile descramblers Type1   *)
(* and Type2.  A key is a Python str, modelled as a sequence of            *)
(* one-character strings.  An engine is constructed from a key pair        *)
(* (__init__) and then queried with calculate_coords(width, height).       *)
(***************************************************************************)
EXTENDS Integers, Sequences, FiniteSets, TLC

VARIABLES
    kind,      \* which class is under construction: "Type1" or "Type2"
    key_h,     \* constructor argument key_h
    key_s,     \* constructor argument key_s
    pc,        \* "new" before __init__ ran, "ready" once it returned, "raised" if it raised
    Tt, Pt,    \* Type1.Tt / Type1.Pt (scramble map, unscramble map)
    T, j, Dt,  \* Type2.T / Type2.j / Type2.Dt
    Rt, Ft,    \* Type2.Rt / Type2.Ft (scramble-side adjustment vectors)
    Lt, Nt,    \* Type2.Lt / Type2.Nt (unscramble-side adjustment vectors)
    kt,        \* Type2.kt (final permutation, or None)
    ret,       \* the last calculate_coords call: its arguments, locals and result
    rt         \* the last round trip through the engine and its role-swapped twin

vars == <<kind, key_h, key_s, pc, Tt, Pt, T, j, Dt, Rt, Ft, Lt, Nt, kt, ret, rt>>

(***************************************************************************)
(* Python values                                                           *)
(***************************************************************************)
None == [tag |-> "None"]

\* F(v), with v evaluated once (a local variable of the source)
Let(v, F(_)) == CHOOSE r \in {F(x) : x \in {v}} : TRUE

UPPER == <<"A","B","C","D","E","F","G","H","I","J","K","L","M",
           "N","O","P","Q","R","S","T","U","V","W","X","Y","Z">>
LOWER == <<"a","b","c","d","e","f","g","h","i","j","k","l","m",
           "n","o","p","q","r","s","t","u","v","w","x","y","z">>
DIGITS == <<"0","1","2","3","4","5","6","7","8","9">>

\* str.find for a one-character needle: 0-based index, -1 when absent
RECURSIVE find_from(_, _, _)
find_from(alphabet, t, i) ==
    IF i > Len(alphabet) THEN -1
    ELSE IF alphabet[i] = t THEN i - 1
    ELSE find_from(alphabet, t, i + 1)

find(alphabet, t) == find_from(alphabet, t, 1)

\* str.split('-')
RECURSIVE split_acc(_, _, _)
split_acc(s, parts, cur) ==
    IF s = <<>> THEN Append(parts, cur)
    ELSE IF Head(s) = "-" THEN split_acc(Tail(s), Append(parts, cur), <<>>)
    ELSE split_acc(Tail(s), parts, Append(cur, Head(s)))

split(s) == split_acc(s, <<>>, <<>>)

\* int(str): defined on non-empty runs of ASCII digits, ValueError otherwise
\* (signs, blanks and underscores are not part of the modelled key alphabets)
is_int(s) == s # <<>> /\ \A k \in 1..Len(s) : find(DIGITS, s[k]) >= 0

RECURSIVE int_acc(_, _)
int_acc(s, acc) ==
    IF s = <<>> THEN acc ELSE int_acc(Tail(s), 10 * acc + find(DIGITS, Head(s)))

int(s) == int_acc(s, 0)

Rect(xsrc, ysrc, width, height, xdest, ydest) ==
    [xsrc |-> xsrc, ysrc |-> ysrc, width |-> width, height |-> height,
     xdest |-> xdest, ydest |-> ydest]

(***************************************************************************)
(* class Type1                                                             *)
(***************************************************************************)

\* Type1._parse_key.decode_char: (i, i + 2*n)
Type1_decode_char(t) ==
    LET n == find(UPPER, t)
    IN  IF n < 0 THEN <<1, 1 + 2 * find(LOWER, t)>>
        ELSE <<0, 0 + 2 * n>>

\* Type1_thresholds with the interior band one index too long
Type1_thresholds_long_interior(ndx, ndy) ==
    LET a == (ndx - 1) * (ndy - 1)
        f == ndx - 1 + a
        c == ndy - 1 + f
        l == 1 + c
    IN  [a |-> a, f |-> f, c |-> c, l |-> l]

\* the four thresholds a, f, c, l of the loop body
Type1_thresholds(ndx, ndy) ==
    LET a == (ndx - 1) * (ndy - 1) - 1
        f == ndx - 1 + a
        c == ndy - 1 + f
        l == 1 + c
    IN  [a |-> a, f |-> f, c |-> c, l |-> l]

\* one iteration of the loop over d: the piece appended for index d (0-based)
Type1_piece(ndx, ndy, data_str, d) ==
    LET s  == Type1_decode_char(data_str[2 * d + 1])[2]
        h  == Type1_decode_char(data_str[2 * d + 2])[2]
        th == Type1_thresholds(ndx, ndy)
        uo == IF d <= th.a THEN <<2, 2>>
              ELSE IF d <= th.f THEN <<2, 1>>
              ELSE IF d <= th.c THEN <<1, 2>>
              ELSE IF d <= th.l THEN <<1, 1>>
              ELSE <<0, 0>>
    IN  [x |-> s, y |-> h, w |-> uo[1], h |-> uo[2]]

\* Type1._parse_key: None, a dict, or the ValueError of int()
Type1_parse_key(key) ==
    Let(split(key), LAMBDA parts :
        IF Len(parts) # 3 THEN None
        ELSE IF ~is_int(parts[1]) \/ ~is_int(parts[2]) THEN [tag |-> "ValueError"]
        ELSE LET ndx == int(parts[1])
                 ndy == int(parts[2])
                 data_str == parts[3]
             IN  IF Len(data_str) # ndx * ndy * 2 THEN None
                 ELSE [tag |-> "dict", ndx |-> ndx, ndy |-> ndy,
                       piece |-> [d1 \in 1..(ndx * ndy) |->
                                     Type1_piece(ndx, ndy, data_str, d1 - 1)]])

\* Type1.__init__: the object's fields, or the ValueError it raises
Type1_init(kh, ks) ==
    Let(Type1_parse_key(ks), LAMBDA tt :
        IF tt.tag = "ValueError" THEN [ok |-> FALSE, Tt |-> None, Pt |-> None]
        ELSE
    Let(Type1_parse_key(kh), LAMBDA pt :
        IF pt.tag = "ValueError" THEN [ok |-> FALSE, Tt |-> tt, Pt |-> None]
        ELSE IF tt = None \/ pt = None THEN [ok |-> FALSE, Tt |-> tt, Pt |-> pt]
        ELSE IF tt.ndx # pt.ndx \/ tt.ndy # pt.ndy THEN [ok |-> FALSE, Tt |-> tt, Pt |-> pt]
        ELSE [ok |-> TRUE, Tt |-> tt, Pt |-> pt]))

\* Type1_bases without the alignment of r to a multiple of 8
Type1_bases_unaligned(size) ==
    LET n == size - (size % 8)
        r == (n - 1) \div 7
        e == n - 7 * r
    IN  [n |-> n, r |-> r, e |-> e]

\* the alignment bases of one axis: n = size - size % 8, r, e
Type1_bases(size) ==
    LET n == size - (size % 8)
        q == (n - 1) \div 7
        r == q - (q % 8)
        e == n - 7 * r
    IN  [n |-> n, r |-> r, e |-> e]

\* floor(v / 2) * r + (v % 2) * e
Type1_offset(v, r, e) == (v \div 2) * r + (v % 2) * e

\* the Rect appended for tile index a (1-based here)
Type1_tile(tt, pt, a, r, e, h, u) ==
    LET f == tt.piece[a]
        c == pt.piece[a]
    IN  Rect(Type1_offset(f.x, r, e), Type1_offset(f.y, h, u),
             Type1_offset(f.w, r, e), Type1_offset(f.h, h, u),
             Type1_offset(c.x, r, e), Type1_offset(c.y, h, u))

\* Type1.calculate_coords
Type1_calculate_coords(tt, pt, image_width, image_height) ==
    LET bx == Type1_bases(image_width)
        by == Type1_bases(image_height)
        r == bx.r
        e == bx.e
        h == by.r
        u == by.e
        o == Len(tt.piece)
        tiles == [a \in 1..o |-> Type1_tile(tt, pt, a, r, e, h, u)]
        l == r * (tt.ndx - 1) + e
        v == h * (tt.ndy - 1) + u
        right == IF l < image_width
                 THEN <<Rect(l, 0, image_width - l, v, l, 0)>> ELSE <<>>
        bottom == IF v < image_height
                  THEN <<Rect(0, v, image_width, image_height - v, 0, v)>> ELSE <<>>
    IN  [raised |-> FALSE, coords |-> tiles \o right \o bottom,
         r |-> r, e |-> e, h |-> h, u |-> u, l |-> l, v |-> v]

(***************************************************************************)
(* class Type2                                                             *)
(***************************************************************************)

\* Type2._Jt
Type2_Jt ==
    <<-1, -1, -1, -1, -1, -1, -1, -1, -1, -1, -1, -1, -1, -1, -1, -1,
      -1, -1, -1, -1, -1, -1, -1, -1, -1, -1, -1, -1, -1, -1, -1, -1,
      -1, -1, -1, -1, -1, -1, -1, -1, -1, -1, -1, -1, -1, 62, -1, -1,
      52, 53, 54, 55, 56, 57, 58, 59, 60, 61, -1, -1, -1, -1, -1, -1,
      -1, 0, 1, 2, 3, 4, 5, 6, 7, 8, 9, 10, 11, 12, 13, 14,
      15, 16, 17, 18, 19, 20, 21, 22, 23, 24, 25, -1, -1, -1, -1, 63,
      -1, 26, 27, 28, 29, 30, 31, 32, 33, 34, 35, 36, 37, 38, 39, 40,
      41, 42, 43, 44, 45, 46, 47, 48, 49, 50, 51, -1, -1, -1, -1, -1>>

\* the printable ASCII characters, code points 32..126, in order (the double
\* quote, the backslash and the backtick are written as placeholders)
ASCII ==
    <<" ", "!", "<quote>", "#", "$", "%", "&", "'", "(", ")", "*", "+", ",", "-", ".", "/",
      "0", "1", "2", "3", "4", "5", "6", "7", "8", "9", ":", ";", "<", "=", ">", "?",
      "@", "A", "B", "C", "D", "E", "F", "G", "H", "I", "J", "K", "L", "M", "N", "O",
      "P", "Q", "R", "S", "T", "U", "V", "W", "X", "Y", "Z", "[", "<backslash>", "]", "^", "_",
      "<backtick>", "a", "b", "c", "d", "e", "f", "g", "h", "i", "j", "k", "l", "m", "n", "o",
      "p", "q", "r", "s", "t", "u", "v", "w", "x", "y", "z", "{", "|", "}", "~">>

\* ord(c) for a printable ASCII character
ord(c) == find(ASCII, c) + 32

\* list[i] with Python's negative-index wrap-around; IndexError when out of range
py_index_ok(list, i) == -Len(list) <= i /\ i < Len(list)

py_index(list, i) == IF i < 0 THEN list[Len(list) + i + 1] ELSE list[i + 1]

\* Type2._decode_char
Type2_decode_char(char_code) ==
    IF 0 <= char_code /\ char_code < Len(Type2_Jt) THEN Type2_Jt[char_code + 1] ELSE -1

\* Type2._parse_sub_key
Type2_parse_sub_key(data_str, t_, j_) ==
    [t |-> [i \in 1..t_ |-> Type2_decode_char(ord(data_str[i]))],
     n |-> [i \in 1..j_ |-> Type2_decode_char(ord(data_str[t_ + i]))],
     p |-> [i \in 1..(t_ * j_) |-> Type2_decode_char(ord(data_str[t_ + j_ + i]))]]

\* the character classes of the key pattern
is_digit(c) == find(DIGITS, c) >= 0

is_data_char(c) ==
    c = "-" \/ c = "_" \/ is_digit(c) \/ find(UPPER, c) >= 0 \/ find(LOWER, c) >= 0

\* the length of the longest prefix of s made of digits: what [0-9]+ consumes
RECURSIVE digits_span(_)
digits_span(s) ==
    IF s = <<>> \/ ~is_digit(Head(s)) THEN 0 ELSE 1 + digits_span(Tail(s))

drop(s, n) == SubSeq(s, n + 1, Len(s))

\* re.match(r'^=([0-9]+)-([0-9]+)([-+])([0-9]+)-([-_0-9A-Za-z]+)$', key):
\* None, or the five groups
re_match(key) ==
    IF key = <<>> \/ Head(key) # "=" THEN None
    ELSE
    LET s1 == Tail(key)
        n1 == digits_span(s1)
        s2 == drop(s1, n1)
    IN  IF n1 = 0 \/ s2 = <<>> \/ Head(s2) # "-" THEN None
    ELSE
    LET s3 == Tail(s2)
        n2 == digits_span(s3)
        s4 == drop(s3, n2)
    IN  IF n2 = 0 \/ s4 = <<>> \/ Head(s4) \notin {"-", "+"} THEN None
    ELSE
    LET s5 == Tail(s4)
        n4 == digits_span(s5)
        s6 == drop(s5, n4)
    IN  IF n4 = 0 \/ s6 = <<>> \/ Head(s6) # "-" THEN None
    ELSE
    LET s7 == Tail(s6)
    IN  IF s7 = <<>> \/ \E k \in 1..Len(s7) : ~is_data_char(s7[k]) THEN None
        ELSE [tag |-> "match",
              group |-> <<SubSeq(s1, 1, n1), SubSeq(s3, 1, n2), <<Head(s4)>>,
                          SubSeq(s5, 1, n4), s7>>]

\* the object's fields as the first lines of Type2.__init__ set them
Type2_fields0 ==
    [raised |-> FALSE, kt |-> None, T |-> 0, j |-> 0, Dt |-> 0,
     Rt |-> <<>>, Ft |-> <<>>, Lt |-> <<>>, Nt |-> <<>>]

\* the loop that builds self.kt: the list, and whether an index raised IndexError
Type2_build_kt(s_p, h_p, count) ==
    LET ok(u) == py_index_ok(s_p, h_p[u])
        bad == {u \in 1..count : ~ok(u)}
        stop == IF bad = {} THEN count + 1
                ELSE CHOOSE u \in bad : \A w \in bad : u <= w
    IN  [raised |-> bad # {},
         kt |-> [tag |-> "list", v |-> [u \in 1..(stop - 1) |-> py_index(s_p, h_p[u])]]]

\* lines 219-255 of Type2._parse_keys, once both keys matched the pattern
Type2_parse_matched(sg, hg) ==
    IF sg[1] # hg[1] \/ sg[2] # hg[2] \/ sg[4] # hg[4]
       \/ sg[3] # <<"+">> \/ hg[3] # <<"-">> THEN Type2_fields0
    ELSE
    LET t_ == int(sg[1])
        j_ == int(sg[2])
        d_ == int(sg[4])
        sized == [Type2_fields0 EXCEPT !.T = t_, !.j = j_, !.Dt = d_]
    IN  IF t_ > 8 \/ j_ > 8 \/ t_ * j_ > 64 THEN sized
    ELSE IF Len(sg[5]) # t_ + j_ + t_ * j_ \/ Len(hg[5]) # t_ + j_ + t_ * j_ THEN sized
    ELSE
    Let(Type2_parse_sub_key(sg[5], t_, j_), LAMBDA s_parsed :
    Let(Type2_parse_sub_key(hg[5], t_, j_), LAMBDA h_parsed :
    Let(Type2_build_kt(s_parsed.p, h_parsed.p, t_ * j_), LAMBDA built :
        [sized EXCEPT !.Rt = s_parsed.n, !.Ft = s_parsed.t,
                      !.Lt = h_parsed.n, !.Nt = h_parsed.t,
                      !.kt = built.kt, !.raised = built.raised])))

\* Type2._parse_keys (called as _parse_keys(key_s, key_h)): the fields it leaves
Type2_parse_keys(ks, kh) ==
    Let(re_match(ks), LAMBDA s_match :
    Let(re_match(kh), LAMBDA h_match :
        IF s_match = None \/ h_match = None THEN Type2_fields0
        ELSE Type2_parse_matched(s_match.group, h_match.group)))

\* Type2.__init__(key_h, key_s)
Type2_init(kh, ks) == Type2_parse_keys(ks, kh)

\* `not self.kt`: None or the empty list
Type2_not_kt(kt_) == kt_ = None \/ kt_.v = <<>>

\* ceil-style base size and remainder of one axis: r (or s) and e (or h)
Type2_base(i, count) == (i + count - 1) \div count

Type2_rest(i, count) == i - (count - 1) * Type2_base(i, count)

\* Type2_tile with the border offset of the source origin added to the
\* destination origin as well
Type2_tile_bordered_dest(eng, o, r, e, s, h) ==
    LET a == o % eng.T
        f == o \div eng.T
        c == eng.Dt + a * (r + 2 * eng.Dt) + (IF py_index(eng.Lt, f) < a THEN e - r ELSE 0)
        l == eng.Dt + f * (s + 2 * eng.Dt) + (IF py_index(eng.Nt, a) < f THEN h - s ELSE 0)
        v == py_index(eng.kt.v, o) % eng.T
        d == py_index(eng.kt.v, o) \div eng.T
        b == eng.Dt + v * (r + 2 * eng.Dt) + (IF py_index(eng.Rt, d) < v THEN e - r ELSE 0)
        g == eng.Dt + d * (s + 2 * eng.Dt) + (IF py_index(eng.Ft, v) < d THEN h - s ELSE 0)
        p == IF py_index(eng.Lt, f) = a THEN e ELSE r
        m == IF py_index(eng.Nt, a) = f THEN h ELSE s
    IN  Rect(c, l, p, m, b, g)

\* one iteration of the loop over o (0-based): the Rect it would append
Type2_tile(eng, o, r, e, s, h) ==
    LET a == o % eng.T
        f == o \div eng.T
        c == eng.Dt + a * (r + 2 * eng.Dt) + (IF py_index(eng.Lt, f) < a THEN e - r ELSE 0)
        l == eng.Dt + f * (s + 2 * eng.Dt) + (IF py_index(eng.Nt, a) < f THEN h - s ELSE 0)
        v == py_index(eng.kt.v, o) % eng.T
        d == py_index(eng.kt.v, o) \div eng.T
        b == v * r + (IF py_index(eng.Rt, d) < v THEN e - r ELSE 0)
        g == d * s + (IF py_index(eng.Ft, v) < d THEN h - s ELSE 0)
        p == IF py_index(eng.Lt, f) = a THEN e ELSE r
        m == IF py_index(eng.Nt, a) = f THEN h ELSE s
    IN  Rect(c, l, p, m, b, g)

\* whether iteration o raises IndexError (self.Rt[d] is the only index that can)
Type2_tile_raises(eng, o) ==
    ~py_index_ok(eng.Rt, py_index(eng.kt.v, o) \div eng.T)

\* the loop of Type2.calculate_coords over every tile index
Type2_tiles(eng, r, e, s, h) ==
    [o1 \in 1..(eng.T * eng.j) |-> Type2_tile(eng, o1 - 1, r, e, s, h)]

\* Type2_guarded_tiles without the test `i > 0 and n > 0`
Type2_unguarded_tiles(eng, i, n, r, e, s, h) == Type2_tiles(eng, r, e, s, h)

\* the list u the loop leaves: a Rect is appended only if i > 0 and n > 0
Type2_guarded_tiles(eng, i, n, r, e, s, h) ==
    IF i > 0 /\ n > 0 THEN Type2_tiles(eng, r, e, s, h) ELSE <<>>

\* Type2.calculate_coords
Type2_calculate_coords(eng, image_width, image_height) ==
    IF Type2_not_kt(eng.kt)
    THEN [raised |-> FALSE,
          coords |-> <<Rect(0, 0, image_width, image_height, 0, 0)>>,
          i |-> 0, n |-> 0, r |-> 0, e |-> 0, s |-> 0, h |-> 0]
    ELSE
    LET i == image_width - 2 * eng.T * eng.Dt
        n == image_height - 2 * eng.j * eng.Dt
        r == Type2_base(i, eng.T)
        e == Type2_rest(i, eng.T)
        s == Type2_base(n, eng.j)
        h == Type2_rest(n, eng.j)
        count == eng.T * eng.j
        raises == \E o \in 0..(count - 1) : Type2_tile_raises(eng, o)
        u == Type2_guarded_tiles(eng, i, n, r, e, s, h)
    IN  [raised |-> raises, coords |-> IF raises THEN <<>> ELSE u,
         i |-> i, n |-> n, r |-> r, e |-> e, s |-> s, h |-> h]

(***************************************************************************)
(* The pixel copy the Rect list is made for (spec section 6): copy the     *)
(* width x height block at (xsrc, ysrc) of the source image to             *)
(* (xdest, ydest) of the destination image.  An image is a function from   *)
(* pixel positions <<x, y>> to pixel values; positions outside either      *)
(* image are skipped.                                                      *)
(***************************************************************************)
Pixels(w, h) == (0..(w - 1)) \X (0..(h - 1))

\* the test image: every pixel carries its own position as a distinct value
Original(w, h) == [p \in Pixels(w, h) |-> 1 + p[1] + w * p[2]]

Blank(w, h) == [p \in Pixels(w, h) |-> 0]

copy_rect(R, src, dst, w, h) ==
    [p \in Pixels(w, h) |->
        LET sx == p[1] - R.xdest + R.xsrc
            sy == p[2] - R.ydest + R.ysrc
        IN  IF /\ R.xdest <= p[1] /\ p[1] < R.xdest + R.width
               /\ R.ydest <= p[2] /\ p[2] < R.ydest + R.height
               /\ 0 <= sx /\ sx < w /\ 0 <= sy /\ sy < h
            THEN src[<<sx, sy>>]
            ELSE dst[p]]

\* apply the Rects in order
RECURSIVE copy_all(_, _, _, _, _, _)
copy_all(coords, k, src, dst, w, h) ==
    IF k > Len(coords) THEN dst
    ELSE copy_all(coords, k + 1, src, copy_rect(coords[k], src, dst, w, h), w, h)

\* image -> buffer through the engine's Rects, buffer -> result through the
\* Rects of the engine built from the same keys with the roles swapped
round_trip(kh, ks, w, h) ==
    LET E  == Type1_init(kh, ks)
        E2 == Type1_init(ks, kh)
        c1 == Type1_calculate_coords(E.Tt, E.Pt, w, h).coords
        c2 == Type1_calculate_coords(E2.Tt, E2.Pt, w, h).coords
        buffer == copy_all(c1, 1, Original(w, h), Blank(w, h), w, h)
    IN  copy_all(c2, 1, buffer, Blank(w, h), w, h)

(***************************************************************************)
(* Bounds and inputs                                                       *)
(***************************************************************************)
\* Type 1 grids with ndx * ndy <= MaxCells1 get every data string over Alpha1
MaxCells1 == 2
\* Type 1 grids up to MaxNd x MaxNd get their identity-layout key
MaxNd == 3
\* Type 2 grids with T * j <= MaxTiles2 get every data string over Alpha2
MaxTiles2 == 2
\* Type 2 image widths 0..MaxW2
MaxW2 == 6
\* widths (heights) 0..MaxDim1 for the sweep of the Type 1 alignment bases
MaxDim1 == 130

Alpha1 == {"A", "a", "!"}
Alpha2 == {"A", "B"}
\* the border widths D of the enumerated Type 2 keys
Borders2 == {0, 1}

RECURSIVE str(_)
str(n) == IF n < 10 THEN <<DIGITS[n + 1]>> ELSE str(n \div 10) \o <<DIGITS[(n % 10) + 1]>>

Key1(ndx, ndy, data) == str(ndx) \o <<"-">> \o str(ndy) \o <<"-">> \o data

Key2(t_, j_, sign, d_, data) ==
    <<"=">> \o str(t_) \o <<"-">> \o str(j_) \o <<sign>> \o str(d_) \o <<"-">> \o data

\* the data of the key that leaves every tile of an ndx x ndy grid in place,
\* remainder column and remainder row last; tiles are listed full ones first,
\* then the remainder row, then the remainder column, then the corner
IdentityData1(ndx, ndy) ==
    LET full == (ndx - 1) * (ndy - 1)
        col(d) == IF d < full THEN d % (ndx - 1)
                  ELSE IF d < full + ndx - 1 THEN d - full
                  ELSE ndx - 1
        row(d) == IF d < full THEN d \div (ndx - 1)
                  ELSE IF d < full + ndx - 1 THEN ndy - 1
                  ELSE IF d < ndx * ndy - 1 THEN d - full - (ndx - 1)
                  ELSE ndy - 1
    IN  [k \in 1..(2 * ndx * ndy) |->
            IF k % 2 = 1 THEN UPPER[col((k - 1) \div 2) + 1]
            ELSE UPPER[row((k - 1) \div 2) + 1]]

IdentityKey1(ndx, ndy) == Key1(ndx, ndy, IdentityData1(ndx, ndy))

Grids1 == {g \in (1..MaxCells1) \X (1..MaxCells1) : g[1] * g[2] <= MaxCells1}

AllKeys1(g) == {Key1(g[1], g[2], data) : data \in [1..(2 * g[1] * g[2]) -> Alpha1]}

\* <<key_h, key_s>> pairs that do not construct, or construct a degenerate grid
OddPairs1 ==
    {<<<<"1","-","1","-","A","A">>, <<"2","-","1","-","A","A","B","A">>>>,
     <<<<"1","-","1">>, <<"1","-","1","-","A","A">>>>,
     <<<<"1","-","1","-","A","A">>, <<"1","-","1","-","A","-","A">>>>,
     <<<<"1","-","1","-","A">>, <<"1","-","1","-","A","A">>>>,
     <<<<"x","-","1","-","A","A">>, <<"1","-","1","-","A","A">>>>,
     <<<<"1","-","1","-","A","A">>, <<"1","-","y","-","A","A">>>>,
     <<<<"0","-","0","-">>, <<"0","-","0","-">>>>}

Pairs1 ==
    UNION {{<<k, IdentityKey1(g[1], g[2])>> : k \in AllKeys1(g)} : g \in Grids1}
    \cup UNION {{<<IdentityKey1(g[1], g[2]), k>> : k \in AllKeys1(g)} : g \in Grids1}
    \cup {<<IdentityKey1(x, y), IdentityKey1(x, y)>> : x \in 1..MaxNd, y \in 1..MaxNd}
    \cup OddPairs1

Sizes1 == {0, 5, 8, 13, 75} \X {5, 8, 75}

SizesRT == {<<5, 8>>, <<13, 9>>, <<66, 8>>, <<8, 66>>}

SizesBases == ((0..MaxDim1) \X {8}) \cup ({8} \X (0..MaxDim1))

Grids2 == {g \in (1..MaxTiles2) \X (1..MaxTiles2) : g[1] * g[2] <= MaxTiles2}

Data2(g) == [1..(g[1] + g[2] + g[1] * g[2]) -> Alpha2]

\* data with all-zero adjustment vectors and the identity permutation
BaseData2(g) ==
    [k \in 1..(g[1] + g[2] + g[1] * g[2]) |->
        IF k <= g[1] + g[2] THEN "A" ELSE UPPER[k - g[1] - g[2]]]

\* <<key_h, key_s>>: one key ranges over every data string, the other is the base key
GridPairs2(g, d_) ==
    {<<Key2(g[1], g[2], "-", d_, BaseData2(g)), Key2(g[1], g[2], "+", d_, data)>> :
        data \in Data2(g)}
    \cup
    {<<Key2(g[1], g[2], "-", d_, data), Key2(g[1], g[2], "+", d_, BaseData2(g))>> :
        data \in Data2(g)}

\* <<key_h, key_s>> pairs that fail a check of _parse_keys, and a 3 x 1 grid
OddPairs2 ==
    {<<<<"=","1","-","1","-","0","-","A","A","A">>, <<"=","1","-","1","+","0","-","A","!","A">>>>,
     <<<<"=","1","-","1","-","0","-","A","A","A">>, <<"=","1","-","1","-","0","-","A","A","A">>>>,
     <<<<"=","1","-","1","+","0","-","A","A","A">>, <<"=","1","-","1","+","0","-","A","A","A">>>>,
     <<<<"=","1","-","1","-","0","-","A","A","A">>, <<"=","2","-","1","+","0","-","A","A","A","A","B">>>>,
     <<<<"=","1","-","2","-","0","-","A","A","A","A","B">>, <<"=","1","-","1","+","0","-","A","A","A">>>>,
     <<<<"=","1","-","1","-","1","-","A","A","A">>, <<"=","1","-","1","+","0","-","A","A","A">>>>,
     <<<<"=","1","-","1","-","0","-","A","A","A">>, <<"=","0","1","-","1","+","0","-","A","A","A">>>>,
     <<<<"=","9","-","1","-","0","-","A">>, <<"=","9","-","1","+","0","-","A">>>>,
     <<<<"=","1","-","9","-","0","-","A">>, <<"=","1","-","9","+","0","-","A">>>>,
     <<<<"=","1","-","1","-","0","-","A","A">>, <<"=","1","-","1","+","0","-","A","A","A">>>>,
     <<<<"=","1","-","1","-","0","-","A","A","A">>, <<"=","1","-","1","+","0","-","A","A","A","A">>>>,
     <<<<"=","1","-","1","-","0","-","A","A","A">>, <<"1","-","1","+","0","-","A","A","A">>>>,
     <<<<"=","1","-","1","-","0","-">>, <<"=","1","-","1","+","0","-","A","A","A">>>>,
     <<<<"=","0","-","1","-","0","-","A">>, <<"=","0","-","1","+","0","-","A">>>>,
     <<<<"=","3","-","1","-","0","-","A","A","A","C","A","B","C">>,
       <<"=","3","-","1","+","0","-","A","A","A","C","A","B","C">>>>}

Pairs2 ==
    UNION {GridPairs2(g, d_) : g \in Grids2, d_ \in Borders2} \cup OddPairs2

\* every width up to the bound, and heights on both sides of every border sum
Sizes2 == (0..MaxW2) \X {0, 1, 3}

(***************************************************************************)
(* The state machine                                                       *)
(***************************************************************************)
Start(k, pair) ==
    /\ kind = k
    /\ key_h = pair[1]
    /\ key_s = pair[2]
    /\ pc = "new"
    /\ Tt = None /\ Pt = None
    /\ T = 0 /\ j = 0 /\ Dt = 0
    /\ Rt = <<>> /\ Ft = <<>> /\ Lt = <<>> /\ Nt = <<>>
    /\ kt = None
    /\ ret = None
    /\ rt = None

Init1 == \E pair \in Pairs1 : Start("Type1", pair)

Init2 == \E pair \in Pairs2 : Start("Type2", pair)

Init == Init1 \/ Init2

\* Type1(key_h, key_s)
Type1Construct ==
    /\ kind = "Type1" /\ pc = "new"
    /\ \E E \in {Type1_init(key_h, key_s)} :
           /\ Tt' = E.Tt
           /\ Pt' = E.Pt
           /\ pc' = IF E.ok THEN "ready" ELSE "raised"
    /\ UNCHANGED <<kind, key_h, key_s, T, j, Dt, Rt, Ft, Lt, Nt, kt, ret, rt>>

\* engine.calculate_coords(w, h) on a Type1 engine
Type1Calculate(w, h) ==
    /\ kind = "Type1" /\ pc = "ready"
    /\ ret' = [tag |-> "Type1", width |-> w, height |-> h,
               out |-> Type1_calculate_coords(Tt, Pt, w, h)]
    /\ UNCHANGED <<kind, key_h, key_s, pc, Tt, Pt, T, j, Dt, Rt, Ft, Lt, Nt, kt, rt>>

\* the round trip of an image through the engine and its role-swapped twin
Type1RoundTrip(w, h) ==
    /\ kind = "Type1" /\ pc = "ready"
    /\ rt' = [tag |-> "rt", width |-> w, height |-> h,
              image |-> round_trip(key_h, key_s, w, h)]
    /\ UNCHANGED <<kind, key_h, key_s, pc, Tt, Pt, T, j, Dt, Rt, Ft, Lt, Nt, kt, ret>>

\* Type2(key_h, key_s)
Type2Construct ==
    /\ kind = "Type2" /\ pc = "new"
    /\ \E E \in {Type2_init(key_h, key_s)} :
           /\ T' = E.T /\ j' = E.j /\ Dt' = E.Dt
           /\ Rt' = E.Rt /\ Ft' = E.Ft /\ Lt' = E.Lt /\ Nt' = E.Nt
           /\ kt' = E.kt
           /\ pc' = IF E.raised THEN "raised" ELSE "ready"
    /\ UNCHANGED <<kind, key_h, key_s, Tt, Pt, ret, rt>>

\* the fields of the constructed Type2 object
self2 ==
    [kt |-> kt, T |-> T, j |-> j, Dt |-> Dt, Rt |-> Rt, Ft |-> Ft, Lt |-> Lt, Nt |-> Nt]

\* engine.calculate_coords(w, h) on a Type2 engine
Type2Calculate(w, h) ==
    /\ kind = "Type2" /\ pc = "ready"
    /\ ret' = [tag |-> "Type2", width |-> w, height |-> h,
               out |-> Type2_calculate_coords(self2, w, h)]
    /\ UNCHANGED <<kind, key_h, key_s, pc, Tt, Pt, T, j, Dt, Rt, Ft, Lt, Nt, kt, rt>>

Next ==
    \/ Type1Construct
    \/ \E sz \in Sizes1 : Type1Calculate(sz[1], sz[2])
    \/ Type2Construct
    \/ \E sz \in Sizes2 : Type2Calculate(sz[1], sz[2])

Spec == Init /\ [][Next]_vars

\* Type1 engines alone
Next1 ==
    \/ Type1Construct
    \/ \E sz \in Sizes1 : Type1Calculate(sz[1], sz[2])

Spec1 == Init1 /\ [][Next1]_vars

\* Type2 engines alone
Next2 ==
    \/ Type2Construct
    \/ \E sz \in Sizes2 : Type2Calculate(sz[1], sz[2])

Spec2 == Init2 /\ [][Next2]_vars

\* the round trip alone
NextRT ==
    \/ Type1Construct
    \/ \E sz \in SizesRT : Type1RoundTrip(sz[1], sz[2])

SpecRT == Init1 /\ [][NextRT]_vars

\* the sweep of the alignment bases over every width and every height
InitBases ==
    \E x \in 1..MaxNd : Start("Type1", <<IdentityKey1(x, x), IdentityKey1(x, x)>>)

NextBases ==
    \/ Type1Construct
    \/ \E sz \in SizesBases : Type1Calculate(sz[1], sz[2])

SpecBases == InitBases /\ [][NextBases]_vars

(***************************************************************************)
(* Properties                                                              *)
(***************************************************************************)

\* A Rect's destination rectangle [xdest, xdest+width) x [ydest, ydest+height)
\* holds a pixel only when both extents are positive.
NonEmpty(R) == R.width > 0 /\ R.height > 0

DestInside(R, w, h) ==
    /\ 0 <= R.xdest /\ R.xdest + R.width <= w
    /\ 0 <= R.ydest /\ R.ydest + R.height <= h

DestOverlap(R1, R2) ==
    /\ NonEmpty(R1) /\ NonEmpty(R2)
    /\ R1.xdest < R2.xdest + R2.width /\ R2.xdest < R1.xdest + R1.width
    /\ R1.ydest < R2.ydest + R2.height /\ R2.ydest < R1.ydest + R1.height

RECURSIVE DestArea(_, _)
DestArea(coords, k) ==
    IF k > Len(coords) THEN 0
    ELSE (IF NonEmpty(coords[k]) THEN coords[k].width * coords[k].height ELSE 0)
         + DestArea(coords, k + 1)

\* The destination rectangles are pairwise disjoint and their union is exactly
\* [0,w) x [0,h): none holds a pixel outside, no two share a pixel, and together
\* they hold w*h pixels.
DestPartition(coords, w, h) ==
    /\ \A k \in 1..Len(coords) : NonEmpty(coords[k]) => DestInside(coords[k], w, h)
    /\ \A k, m \in 1..Len(coords) : k < m => ~DestOverlap(coords[k], coords[m])
    /\ DestArea(coords, 1) = w * h

Returned1 == ret.tag = "Type1"

Returned2 == ret.tag = "Type2"

\* the Type2 engine holds a permutation whose entries are all indices of the grid
Usable2 ==
    /\ kind = "Type2" /\ pc = "ready"
    /\ ~Type2_not_kt(kt)
    /\ Len(kt.v) = T * j
    /\ \A u \in 1..Len(kt.v) : 0 <= kt.v[u] /\ kt.v[u] < T * j

Bijective2 == \A u, w \in 1..Len(kt.v) : kt.v[u] = kt.v[w] => u = w

\* C1: for every constructed Type 1 engine and every image size, the destination
\* rectangles of the Rects calculate_coords returns are pairwise disjoint and
\* their union is exactly [0,width) x [0,height).
C1_Type1DestPartition ==
    Returned1 => DestPartition(ret.out.coords, ret.width, ret.height)

C2_Case ==
    /\ Returned2 /\ Usable2 /\ Bijective2
    /\ ret.width - 2 * T * Dt > 0 /\ ret.height - 2 * j * Dt > 0
    /\ (ret.width - 2 * T * Dt) % T = 0
    /\ (ret.height - 2 * j * Dt) % j = 0

C3_RoundTrip ==
    rt.tag = "rt" => rt.image = Original(rt.width, rt.height)

\* C4: after Type 2 construction the engine either holds no permutation or kt
\* has exactly T*j entries, each in [0, T*j).
C4_PermutationInRange ==
    (kind = "Type2" /\ pc = "ready")
    => \/ Type2_not_kt(kt)
       \/ /\ Len(kt.v) = T * j
          /\ \A u \in 1..Len(kt.v) : 0 <= kt.v[u] /\ kt.v[u] < T * j

\* the decoded permutation part of a matched key's data, when the sizes fit
Permutation2(key) ==
    LET g == re_match(key).group
        t_ == int(g[1])
        j_ == int(g[2])
    IN  Type2_parse_sub_key(g[5], t_, j_).p

\* a key pair that is invalid at one of the stages C5 lists
Invalid2 ==
    \/ re_match(key_s) = None \/ re_match(key_h) = None
    \/ LET sg == re_match(key_s).group
           hg == re_match(key_h).group
           t_ == int(sg[1])
           j_ == int(sg[2])
       IN  \/ sg[1] # hg[1] \/ sg[2] # hg[2] \/ sg[4] # hg[4]
           \/ sg[3] # <<"+">> \/ hg[3] # <<"-">>
           \/ t_ > 8 \/ j_ > 8 \/ t_ * j_ > 64
           \/ Len(sg[5]) # t_ + j_ + t_ * j_ \/ Len(hg[5]) # t_ + j_ + t_ * j_
           \/ \E u \in 1..(t_ * j_) :
                \/ Permutation2(key_s)[u] \notin 0..(t_ * j_ - 1)
                \/ Permutation2(key_h)[u] \notin 0..(t_ * j_ - 1)

\* C5: constructing a Type 2 engine never raises, and for an invalid key pair
\* calculate_coords returns exactly the one identity Rect.
C5_Type2NeverRaises ==
    kind = "Type2"
    => /\ pc # "raised"
       /\ (Returned2 /\ Invalid2)
          => /\ ~ret.out.raised
             /\ ret.out.coords = <<Rect(0, 0, ret.width, ret.height, 0, 0)>>

\* the data part of a Type 1 key holds a character outside A-Z / a-z
NonLetterData1(key) ==
    /\ Len(split(key)) = 3
    /\ \E k \in 1..Len(split(key)[3]) :
          find(UPPER, split(key)[3][k]) < 0 /\ find(LOWER, split(key)[3][k]) < 0

\* C6: Type 1 construction raises whenever the data part of either key holds a
\* character outside the alphabet; no tile is built from such a character.
C6_Type1RejectsNonLetters ==
    (kind = "Type1" /\ pc # "new" /\ (NonLetterData1(key_h) \/ NonLetterData1(key_s)))
    => pc = "raised"

\* C7: every Rect either engine returns has all six fields >= 0.
C7_RectFieldsNonNegative ==
    ((Returned1 \/ Returned2) /\ ~ret.out.raised)
    => \A k \in 1..Len(ret.out.coords) :
          LET R == ret.out.coords[k]
          IN  /\ R.xsrc >= 0 /\ R.ysrc >= 0 /\ R.width >= 0
              /\ R.height >= 0 /\ R.xdest >= 0 /\ R.ydest >= 0

\* the case of C8: a usable permutation and a degenerate interior
C8_Case ==
    /\ Returned2 /\ Usable2
    /\ (ret.width - 2 * T * Dt <= 0 \/ ret.height - 2 * j * Dt <= 0)

\* C8: with a usable permutation and width - 2*T*D <= 0 or height - 2*j*D <= 0,
\* calculate_coords returns the empty list and raises nothing.
C8_DegenerateIsEmpty ==
    C8_Case => (~ret.out.raised /\ ret.out.coords = <<>>)

\* C8 witness: a two-tile engine asked for an image its borders use up
C8_Witness ==
    C8_Case /\ T * j = 2 /\ Dt = 1 /\ ret.width > 0 /\ ret.height > 0

\* the (w, h) the claim assigns to index d of an ndx x ndy key
Band(ndx, ndy, d) ==
    IF d < (ndx - 1) * (ndy - 1) THEN <<2, 2>>
    ELSE IF d < (ndx - 1) * (ndy - 1) + (ndx - 1) THEN <<2, 1>>
    ELSE IF d < (ndx - 1) * (ndy - 1) + (ndx - 1) + (ndy - 1) THEN <<1, 2>>
    ELSE <<1, 1>>

InBands(map) ==
    (map.tag = "dict" /\ map.ndx >= 1 /\ map.ndy >= 1)
    => /\ Len(map.piece) = map.ndx * map.ndy
       /\ (map.ndx - 1) * (map.ndy - 1) + (map.ndx - 1) + (map.ndy - 1)
             = map.ndx * map.ndy - 1
       /\ \A d \in 0..(map.ndx * map.ndy - 1) :
             <<map.piece[d + 1].w, map.piece[d + 1].h>> = Band(map.ndx, map.ndy, d)

\* C9: with ndx >= 1 and ndy >= 1 every index falls into one of the four bands:
\* the first (ndx-1)*(ndy-1) tiles get (2,2), the next ndx-1 get (2,1), the next
\* ndy-1 get (1,2), the last one gets (1,1); none keeps (0,0).
C9_FourBands ==
    kind = "Type1" => (InBands(Tt) /\ InBands(Pt))

\* C9 witness: a parsed grid in which all four bands are inhabited
C9_Witness ==
    /\ kind = "Type1" /\ pc = "ready"
    /\ Tt.tag = "dict" /\ Tt.ndx >= 2 /\ Tt.ndy >= 2
    /\ Tt.ndx # Tt.ndy

\* what C10 says of one axis: the size, its base tile size r and remainder e
Aligned(size, r, e) ==
    size >= 8
    => /\ r >= 0 /\ r % 8 = 0
       /\ e > 0 /\ e % 8 = 0
       /\ 7 * r + e = size - (size % 8)
       /\ 7 * r + e <= size

\* C10: for every width >= 8 (and every height >= 8) the alignment bases are
\* r >= 0 a multiple of 8, e > 0 a multiple of 8, and 7*r + e = size - size%8.
C10_AlignedBases ==
    Returned1
    => /\ Aligned(ret.width, ret.out.r, ret.out.e)
       /\ Aligned(ret.height, ret.out.h, ret.out.u)

\* C10 witness: a width large enough for a positive base tile size
C10_Witness ==
    Returned1 /\ ret.width >= 120 /\ ret.out.r = 16 /\ ret.out.e > 0

====
